---- MODULE Spec2Model ----
(***************************************************************************)
(* Model of the photo editor's erase tool                                  *)
(* (src/src/components/SmartPhotoEditor.tsx).                              *)
(*                                                                         *)
(* performInpainting is modelled statement block by statement block: the   *)
(* two canvases it is handed (ctx, maskCtx), the ImageData copies it works *)
(* on (data, mask), the nearest-neighbour field (nnf, nnfDist), the list   *)
(* of valid pixels, the scan position of the refinement loops, the locals  *)
(* of one pixel visit and the reconstruction accumulators.                 *)
(*                                                                         *)
(* Pixels are numbered i = y*width + x (0-based, row-major) as idx() does; *)
(* a buffer is a function on 0..width*height-1.  An image entry is the     *)
(* tuple <<R,G,B,A>>; of the mask only the alpha byte is kept, because the *)
(* code reads and writes no other byte of it.                              *)
(*                                                                         *)
(* Math.random() is the number r/RandRes for a drawn r in 0..RandRes-1.    *)
(***************************************************************************)
EXTENDS Integers, Sequences, FiniteSets, TLC

\* ---- bounds of the model ------------------------------------------------
MaxShade  == 1          \* input colours are RGBof(0) .. RGBof(MaxShade)
RandRes   == 4          \* resolution of the modelled Math.random()

\* ---- program constants --------------------------------------------------
patchSize  == 9
iterations == 5
halfPatch  == patchSize \div 2

VARIABLES
  width, height,        \* arguments of the call
  imgIn, maskIn,        \* history: what the two canvases held before the call
  ctx, maskCtx,         \* the image canvas and the mask canvas
  pc,                   \* position of the call
  data, mask,           \* imgData.data, maskData.data (alpha byte)
  nnf, nnfDist,         \* Int32Array of sources, Float32Array of errors
  validPixels,          \* list of unmasked coordinates
  iter, x, y,           \* loop variables of the refinement passes
  bestX, bestY, bestDist, radius,   \* locals of one pixel visit
  finalData, weights,   \* reconstruction accumulators
  oob,                  \* history: some buffer access left the image
  twin, phase,          \* second run fed the same random numbers
  visited,              \* history: the pixel visits so far, <<iter, x, y>>
  sample,               \* history: rx, ry of the visit's last sample (<<>>: none)
  result                \* what lamaInpainting.run returned (<<>>: nothing)

\* the LamaInpainting object and the calls of init() and run() in flight
VARIABLES
  session,              \* 0 for null, else the call whose create() made it
  isInitializing,
  calls,                \* per caller: the method called and where it stands
  created               \* history: how often session was assigned

\* the editor's undo list
VARIABLES
  history, historyStep, \* React state (lines 338-339)
  isProcessing,         \* isProcessingRef.current
  pending,              \* callbacks in flight, with what their closure captured
  saves                 \* history: snapshots taken so far

paintVars == <<width, height, imgIn, maskIn, ctx, maskCtx, pc, data, mask, nnf,
               nnfDist, validPixels, iter, x, y, bestX, bestY, bestDist, radius,
               finalData, weights, oob, twin, phase, visited, sample, result>>
loaderVars == <<session, isInitializing, calls, created>>
historyVars == <<history, historyStep, isProcessing, pending, saves>>
vars == <<paintVars, loaderVars, historyVars>>

\* ---- bounds of the loader and of the undo list ---------------------------
MaxCallers == 3
MaxSaves == 3
MaxPending == 2
Callers == 1..MaxCallers
NoSession == 0
\* lines 21 and 29: the fields of a new LamaInpainting
LoaderInit ==
  /\ session = NoSession
  /\ isInitializing = FALSE
  /\ calls = [c \in Callers |-> [op |-> "none", at |-> "idle"]]
  /\ created = 0
\* lines 338-340
HistoryInit ==
  /\ history = <<>>
  /\ historyStep = -1
  /\ isProcessing = FALSE
  /\ pending = <<>>
  /\ saves = 0

\* ---- inputs -------------------------------------------------------------
RGBof(s) == <<s, 2 * s, 255 - s>>
Shades == 0..MaxShade
Dims == {<<1, 1>>, <<2, 1>>, <<1, 2>>, <<3, 1>>, <<1, 3>>, <<2, 2>>}
\* alpha of pixel i of a stroke on the mask canvas: solid or anti-aliased
StrokeAlpha(i) == IF i % 2 = 0 THEN 255 ELSE 128
\* alpha of pixel i of the image: an opaque or a translucent picture
ImageAlpha(opaque, i) == IF opaque THEN 255 ELSE 128 + i
Pixels == 0..(width * height - 1)
Draws == 0..(RandRes - 1)

\* ---- helpers (lines 57-62) ----------------------------------------------
idx(px, py) == py * width + px
\* variant: the upper limits tested with <=
isValidInclusive(px, py) == px >= 0 /\ px <= width /\ py >= 0 /\ py <= height
isValid(px, py) == px >= 0 /\ px < width /\ py >= 0 /\ py < height

\* a typed-array read; an index outside the array reads as 0
Rd(buf, i, dflt) == IF i \in DOMAIN buf THEN buf[i] ELSE dflt

\* variant: only a stroke of more than half opacity counts as masked
isMaskedHalf(m, px, py) ==
  IF ~isValid(px, py) THEN FALSE ELSE Rd(m, idx(px, py), 0) > 128
isMasked(m, px, py) ==
  IF ~isValid(px, py) THEN FALSE ELSE Rd(m, idx(px, py), 0) > 0

\* coordinates whose buffer entry isMasked reads
isMaskedAcc(px, py) == IF ~isValid(px, py) THEN {} ELSE {<<px, py>>}

Xof(i) == i % width
Yof(i) == i \div width

Max(a, b) == IF a >= b THEN a ELSE b

\* ---- one run of performInpainting as a record --------------------------
Cur == [pc |-> pc, ctx |-> ctx, maskCtx |-> maskCtx, data |-> data,
        mask |-> mask, nnf |-> nnf, nnfDist |-> nnfDist,
        validPixels |-> validPixels, iter |-> iter, x |-> x, y |-> y,
        bestX |-> bestX, bestY |-> bestY, bestDist |-> bestDist,
        radius |-> radius, finalData |-> finalData, weights |-> weights]

\* ---- numbers ------------------------------------------------------------
\* An error value is the fraction n/d; d = 0 is Infinity.
Infinity == [n |-> 0, d |-> 0]
Zero     == [n |-> 0, d |-> 1]

\* The fraction r/q with 0 <= r < q is what is left of a number after its
\* first 24 significant bits; Float32 rounds to nearest.  bits counts the
\* mantissa bits still to produce.
RECURSIVE F32Rest(_, _, _)
F32Rest(r, q, bits) ==
  IF bits = 0 THEN r
  ELSE F32Rest(IF 2 * r >= q THEN 2 * r - q ELSE 2 * r, q, bits - 1)

RECURSIVE NormUp(_, _)
NormUp(p, q) == IF p >= q THEN p ELSE NormUp(2 * p, q)
RECURSIVE NormDown(_, _)
NormDown(p, q) == IF p < 2 * q THEN q ELSE NormDown(p, 2 * q)

\* Storing p/q into a Float32Array yields a number strictly above p/q.
\* (p/q is first rounded to a double; with q <= patchSize^2 the remainder
\* after 24 bits is at least 1/q away from a tie, so the double rounding
\* does not change the direction.)
F32RoundsUp(p, q) ==
  IF p = 0 \/ q = 0 THEN FALSE
  ELSE LET P == NormUp(p, q)
           Q == NormDown(P, q)
           r == F32Rest(P - Q, Q, 23)
       IN  2 * r > Q

\* dist < bestDist (lines 195, 214): dist is the double c.n/c.d, bestDist
\* is b.n/b.d, rounded to Float32 when b.f32.  Two different fractions of
\* the model's magnitude differ by far more than a Float32 rounding error.
\* variant: the comparison is <=
LessOrEqual(c, b) ==
  IF c.d = 0 THEN FALSE
  ELSE IF b.d = 0 THEN TRUE
  ELSE c.n * b.d <= b.n * c.d
Less(c, b) ==
  IF c.d = 0 THEN FALSE
  ELSE IF b.d = 0 THEN TRUE
  ELSE \/ c.n * b.d < b.n * c.d
       \/ c.n * b.d = b.n * c.d /\ b.f32 /\ F32RoundsUp(b.n, b.d)

\* variant: the sum is stored without dividing it by the weight
ToUint8ClampSum(sum, w) == IF sum > 255 THEN 255 ELSE IF sum < 0 THEN 0 ELSE sum
\* Storing sum/w into a Uint8ClampedArray: round to nearest, ties to even.
ToUint8Clamp(sum, w) ==
  LET q == sum \div w
      r == sum % w
      v == IF 2 * r > w \/ (2 * r = w /\ q % 2 = 1) THEN q + 1 ELSE q
  IN  IF v > 255 THEN 255 ELSE IF v < 0 THEN 0 ELSE v

RECURSIVE SumOver(_, _)
SumOver(S, f) ==
  IF S = {} THEN 0
  ELSE LET e == CHOOSE e \in S : TRUE IN f[e] + SumOver(S \ {e}, f)

\* ---- patchDist (lines 86-117) -------------------------------------------
Min(a, b) == IF a <= b THEN a ELSE b

\* The offsets dx, dy of the two patch loops run over -halfPatch..halfPatch.
\* An offset beyond the image's extent moves every pixel out of the image,
\* so the tests of lines 99 and 265 skip it; only the others are enumerated.
Window(extent) == Max(-halfPatch, -extent)..Min(halfPatch, extent)
Offsets == Window(width) \X Window(height)

\* variant: only the target cell a + d is tested
PatchOffsetsTargetOnly(ax, ay, bx, by) ==
  {o \in Offsets : isValid(ax + o[1], ay + o[2])}
PatchOffsets(ax, ay, bx, by) ==
  {o \in Offsets : isValid(ax + o[1], ay + o[2]) /\ isValid(bx + o[1], by + o[2])}

SqDiff(d, ai, bi) ==
  LET a == Rd(d, ai, <<0, 0, 0, 0>>)
      b == Rd(d, bi, <<0, 0, 0, 0>>)
  IN  (a[1] - b[1]) * (a[1] - b[1]) + (a[2] - b[2]) * (a[2] - b[2])
      + (a[3] - b[3]) * (a[3] - b[3])

patchDist(d, ax, ay, bx, by) ==
  LET os    == PatchOffsets(ax, ay, bx, by)
      count == Cardinality(os)
      dist  == SumOver(os, [o \in os |->
                 SqDiff(d, idx(ax + o[1], ay + o[2]), idx(bx + o[1], by + o[2]))])
  IN  IF count > 0 THEN [n |-> dist, d |-> count] ELSE Infinity

patchDistAcc(ax, ay, bx, by) ==
  UNION {{<<ax + o[1], ay + o[2]>>, <<bx + o[1], by + o[2]>>} :
           o \in PatchOffsets(ax, ay, bx, by)}

\* ---- lines 46-83: copies, fresh arrays, validPixels, early return -------
RECURSIVE CollectValid(_, _)
CollectValid(m, i) ==
  IF i >= width * height THEN <<>>
  ELSE (IF ~isMasked(m, Xof(i), Yof(i)) THEN <<<<Xof(i), Yof(i)>>>> ELSE <<>>)
       \o CollectValid(m, i + 1)

\* variant: no early return
NoSourceNever(vp) == FALSE
NoSource(vp) == Len(vp) = 0

\* variant: the copy made by an earlier call is kept and used again
GetImageDataCached(canvas, old) == IF old # <<>> THEN old ELSE canvas
\* getImageData hands out a new copy of the canvas; old is what the local
\* held before
GetImageData(canvas, old) == canvas

BeginStep(s) ==
  LET m  == GetImageData(s.maskCtx, s.mask)
      vp == CollectValid(m, 0)
  IN  [pc |-> IF NoSource(vp) THEN "done" ELSE "seed",
       ctx |-> s.ctx, maskCtx |-> s.maskCtx,
       data |-> GetImageData(s.ctx, s.data), mask |-> m,
       nnf |-> [i \in Pixels |-> <<0, 0>>],
       nnfDist |-> [i \in Pixels |-> Zero],
       validPixels |-> vp,
       iter |-> 0, x |-> 0, y |-> 0,
       bestX |-> 0, bestY |-> 0, bestDist |-> [n |-> 0, d |-> 1, f32 |-> TRUE],
       radius |-> <<0, 1>>,
       finalData |-> <<>>, weights |-> <<>>]

BeginAcc(s) == {<<Xof(i), Yof(i)>> : i \in Pixels}

\* ---- lines 119-143: initialize the NNF, seed the masked pixels ----------
\* Math.floor(Math.random() * validPixels.length), as a 1-based position
RandIndex(r, len) == ((r * len) \div RandRes) + 1

\* variant: the entry is left as the array was allocated
IdentityUnset(i) == <<0, 0>>
\* the source of an unmasked pixel (lines 138-139)
Identity(i) == <<Xof(i), Yof(i)>>

\* variant: the source is recorded, the guess is not written
SeedPixelNoFill(s, i, rs) ==
  IF isMasked(s.mask, Xof(i), Yof(i))
  THEN IF Len(s.validPixels) = 0 THEN [s EXCEPT !.pc = "throw"]
       ELSE [s EXCEPT !.nnf[i] =
                        s.validPixels[RandIndex(Rd(rs, i, 0), Len(s.validPixels))],
                      !.nnfDist[i] = Infinity]
  ELSE [s EXCEPT !.nnf[i] = Identity(i),
                 !.nnfDist[i] = Zero]
\* validPixels[k] of an empty list is undefined, and reading its .x throws
SeedPixel(s, i, rs) ==
  IF isMasked(s.mask, Xof(i), Yof(i))
  THEN IF Len(s.validPixels) = 0 THEN [s EXCEPT !.pc = "throw"]
       ELSE
       LET randSource == s.validPixels[RandIndex(Rd(rs, i, 0), Len(s.validPixels))]
           src == Rd(s.data, idx(randSource[1], randSource[2]), <<0, 0, 0, 0>>)
       IN  [s EXCEPT !.nnf[i] = randSource,
                     !.data[i] = <<src[1], src[2], src[3], 255>>,
                     !.nnfDist[i] = Infinity]
  ELSE [s EXCEPT !.nnf[i] = Identity(i),
                 !.nnfDist[i] = Zero]

RECURSIVE SeedFrom(_, _, _)
SeedFrom(s, i, rs) ==
  IF i >= width * height \/ s.pc = "throw" THEN s
  ELSE SeedFrom(SeedPixel(s, i, rs), i + 1, rs)

SeedStep(s, rs) ==
  LET t == SeedFrom(s, 0, rs)
  IN  IF t.pc = "throw" THEN t ELSE [t EXCEPT !.pc = "initdist"]

SeedAcc(s, rs) ==
  {<<Xof(i), Yof(i)>> : i \in Pixels}
  \cup (IF Len(s.validPixels) = 0 THEN {}
        ELSE {s.validPixels[RandIndex(Rd(rs, i, 0), Len(s.validPixels))] :
                i \in {j \in Pixels : isMasked(s.mask, Xof(j), Yof(j))}})

\* ---- lines 157-168: the scan loops --------------------------------------
\* variant: every pass scans forward
isReverseNever(it) == FALSE
isReverse(it) == it % 2 = 1
startX(it) == IF isReverse(it) THEN width - 1 ELSE 0
endX(it)   == IF isReverse(it) THEN -1 ELSE width
stepX(it)  == IF isReverse(it) THEN -1 ELSE 1
startY(it) == IF isReverse(it) THEN height - 1 ELSE 0
endY(it)   == IF isReverse(it) THEN -1 ELSE height
stepY(it)  == IF isReverse(it) THEN -1 ELSE 1

\* The loop position <<iter, x, y>> of the next pixel visit at or after
\* (it, px, py): unmasked pixels are skipped (line 168); <<iterations, 0, 0>>
\* when the loops are exhausted.
\* variant: the loops end with the first pass
RECURSIVE ScanOnePass(_, _, _, _)
ScanOnePass(m, it, px, py) ==
  IF it >= iterations \/ py = endY(it) THEN <<iterations, 0, 0>>
  ELSE IF px = endX(it) THEN ScanOnePass(m, it, startX(it), py + stepY(it))
  ELSE IF isMasked(m, px, py) THEN <<it, px, py>>
  ELSE ScanOnePass(m, it, px + stepX(it), py)
RECURSIVE Scan(_, _, _, _)
Scan(m, it, px, py) ==
  IF it >= iterations THEN <<iterations, 0, 0>>
  ELSE IF py = endY(it) THEN
         IF it + 1 >= iterations THEN <<iterations, 0, 0>>
         ELSE Scan(m, it + 1, startX(it + 1), startY(it + 1))
  ELSE IF px = endX(it) THEN Scan(m, it, startX(it), py + stepY(it))
  ELSE IF isMasked(m, px, py) THEN <<it, px, py>>
  ELSE Scan(m, it, px + stepX(it), py)

AtScan(s, pos) ==
  [s EXCEPT !.pc = IF pos[1] >= iterations THEN "reconstruct" ELSE "visit",
            !.iter = pos[1], !.x = pos[2], !.y = pos[3]]

\* ---- lines 145-154: initial distances -----------------------------------
InitDistStep(s) ==
  AtScan([s EXCEPT !.nnfDist =
            [i \in Pixels |->
               IF isMasked(s.mask, Xof(i), Yof(i))
               THEN patchDist(s.data, Xof(i), Yof(i), s.nnf[i][1], s.nnf[i][2])
               ELSE s.nnfDist[i]]],
         Scan(s.mask, 0, startX(0), startY(0)))

InitDistAcc(s) ==
  {<<Xof(i), Yof(i)>> : i \in Pixels}
  \cup UNION {patchDistAcc(Xof(i), Yof(i), s.nnf[i][1], s.nnf[i][2]) :
                i \in {j \in Pixels : isMasked(s.mask, Xof(j), Yof(j))}}

\* variant: the candidate is only tested for being inside the image
CanSourceAnyValid(m, px, py) == isValid(px, py)
\* the test a candidate source must pass (lines 193 and 212)
CanSource(m, px, py) == isValid(px, py) /\ ~isMasked(m, px, py)

\* ---- lines 170-202: start of a pixel visit, propagation -----------------
\* variant: every pass looks left and up
neighborsLeftTop(it) == << <<-1, 0>>, <<0, -1>> >>
neighbors(it) ==
  IF isReverse(it) THEN << <<1, 0>>, <<0, 1>> >>     \* Right, Bottom
  ELSE << <<-1, 0>>, <<0, -1>> >>                    \* Left, Top

\* best is [x, y, dist]; one neighbour nb = <<dx, dy>> of the pixel (px, py)
Propose(s, best, px, py, nb) ==
  LET nx == px + nb[1]
      ny == py + nb[2]
  IN  IF isValid(nx, ny)
      THEN LET src   == Rd(s.nnf, ny * width + nx, <<0, 0>>)
               propX == src[1] - nb[1]
               propY == src[2] - nb[2]
           IN  IF CanSource(s.mask, propX, propY)
               THEN LET dist == patchDist(s.data, px, py, propX, propY)
                    IN  IF Less(dist, best.dist)
                        THEN [x |-> propX, y |-> propY,
                              dist |-> [n |-> dist.n, d |-> dist.d, f32 |-> FALSE]]
                        ELSE best
               ELSE best
      ELSE best

ProposeAcc(s, px, py, nb) ==
  LET nx == px + nb[1]
      ny == py + nb[2]
  IN  IF isValid(nx, ny)
      THEN LET src   == Rd(s.nnf, ny * width + nx, <<0, 0>>)
               propX == src[1] - nb[1]
               propY == src[2] - nb[2]
           IN  {<<nx, ny>>}
               \cup (IF isValid(propX, propY) THEN isMaskedAcc(propX, propY) ELSE {})
               \cup (IF CanSource(s.mask, propX, propY)
                     THEN patchDistAcc(px, py, propX, propY) ELSE {})
      ELSE {}

PropagateStep(s) ==
  LET pIdx == s.y * width + s.x
      b0 == [x |-> s.nnf[pIdx][1], y |-> s.nnf[pIdx][2],
             dist |-> [n |-> s.nnfDist[pIdx].n, d |-> s.nnfDist[pIdx].d,
                       f32 |-> TRUE]]
      b1 == Propose(s, b0, s.x, s.y, neighbors(s.iter)[1])
      b2 == Propose(s, b1, s.x, s.y, neighbors(s.iter)[2])
  IN  [s EXCEPT !.pc = "search", !.bestX = b2.x, !.bestY = b2.y,
                !.bestDist = b2.dist, !.radius = <<Max(width, height), 1>>]

PropagateAcc(s) ==
  {<<s.x, s.y>>} \cup ProposeAcc(s, s.x, s.y, neighbors(s.iter)[1])
                 \cup ProposeAcc(s, s.x, s.y, neighbors(s.iter)[2])

\* ---- lines 204-221: one sample of the random search ---------------------
\* Math.floor(best + (Math.random() * 2 - 1) * radius), radius = rad[1]/rad[2]
RandNear(best, r, rad) ==
  best + (((2 * r - RandRes) * rad[1]) \div (RandRes * rad[2]))

\* variant: the window is centred on the pixel being visited
SearchCentreTarget(s) == <<s.x, s.y>>
\* the centre of the sampling window (lines 208-209)
SearchCentre(s) == <<s.bestX, s.bestY>>

\* rx, ry
SamplePoint(s, r1, r2) ==
  <<RandNear(SearchCentre(s)[1], r1, s.radius),
    RandNear(SearchCentre(s)[2], r2, s.radius)>>

SampleStep(s, r1, r2) ==
  LET rx == SamplePoint(s, r1, r2)[1]
      ry == SamplePoint(s, r1, r2)[2]
      dist == patchDist(s.data, s.x, s.y, rx, ry)
      half == <<s.radius[1], 2 * s.radius[2]>>
  IN  IF CanSource(s.mask, rx, ry) /\ Less(dist, s.bestDist)
      THEN [s EXCEPT !.bestX = rx, !.bestY = ry,
                     !.bestDist = [n |-> dist.n, d |-> dist.d, f32 |-> FALSE],
                     !.radius = half]
      ELSE [s EXCEPT !.radius = half]

SampleAcc(s, r1, r2) ==
  LET rx == SamplePoint(s, r1, r2)[1]
      ry == SamplePoint(s, r1, r2)[2]
  IN  (IF isValid(rx, ry) THEN isMaskedAcc(rx, ry) ELSE {})
      \cup (IF CanSource(s.mask, rx, ry)
            THEN patchDistAcc(s.x, s.y, rx, ry) ELSE {})

\* ---- lines 223-235: commit the best source, move on ---------------------
\* variant: the colour is held back instead of written into the buffer
\* variant: the colour and the error are committed, the NNF entry is not
CommitStepKeepSource(s) ==
  LET pIdx == s.y * width + s.x
      src  == Rd(s.data, idx(s.bestX, s.bestY), <<0, 0, 0, 0>>)
      old  == s.data[pIdx]
      t == [s EXCEPT !.nnfDist[pIdx] = [n |-> s.bestDist.n, d |-> s.bestDist.d],
                     !.data[pIdx] = <<src[1], src[2], src[3], old[4]>>]
  IN  AtScan(t, Scan(s.mask, s.iter, s.x + stepX(s.iter), s.y))
CommitStepDeferred(s) ==
  LET pIdx == s.y * width + s.x
      t == [s EXCEPT !.nnf[pIdx] = <<s.bestX, s.bestY>>,
                     !.nnfDist[pIdx] = [n |-> s.bestDist.n, d |-> s.bestDist.d]]
  IN  AtScan(t, Scan(s.mask, s.iter, s.x + stepX(s.iter), s.y))
CommitStep(s) ==
  LET pIdx == s.y * width + s.x
      src  == Rd(s.data, idx(s.bestX, s.bestY), <<0, 0, 0, 0>>)
      old  == s.data[pIdx]
      t == [s EXCEPT !.nnf[pIdx] = <<s.bestX, s.bestY>>,
                     !.nnfDist[pIdx] = [n |-> s.bestDist.n, d |-> s.bestDist.d],
                     !.data[pIdx] = <<src[1], src[2], src[3], old[4]>>]
  IN  AtScan(t, Scan(s.mask, s.iter, s.x + stepX(s.iter), s.y))

CommitAcc(s) == {<<s.x, s.y>>, <<s.bestX, s.bestY>>}

\* ---- lines 245-280: reconstruction, accumulation ------------------------
\* the pairs <<p, o>> of the two nested loops that pass the test of line 265
\* variant: the zero offset is left out
ContributionsNoCentre(s) ==
  {c \in Pixels \X (Offsets \ {<<0, 0>>}) :
     /\ isValid(Xof(c[1]) + c[2][1], Yof(c[1]) + c[2][2])
     /\ isValid(s.nnf[c[1]][1] + c[2][1], s.nnf[c[1]][2] + c[2][2])}
Contributions(s) ==
  {c \in Pixels \X Offsets :
     /\ isValid(Xof(c[1]) + c[2][1], Yof(c[1]) + c[2][2])
     /\ isValid(s.nnf[c[1]][1] + c[2][1], s.nnf[c[1]][2] + c[2][2])}

\* variant: a patch's cells are all added to the patch's centre
TargetOfCentre(c) == c[1]
TargetOf(c) == (Yof(c[1]) + c[2][2]) * width + (Xof(c[1]) + c[2][1])
\* variant: every cell of the patch contributes the patch's centre
SourceOfCentre(s, c) == s.nnf[c[1]]
SourceOf(s, c) == <<s.nnf[c[1]][1] + c[2][1], s.nnf[c[1]][2] + c[2][2]>>

\* The sums are integers below 2^24, so the Float32 accumulators are exact.
ReconstructStep(s) ==
  LET cs == Contributions(s)
      to(t) == {c \in cs : TargetOf(c) = t}
      ch(t, k) == SumOver(to(t), [c \in to(t) |->
                    Rd(s.data, idx(SourceOf(s, c)[1], SourceOf(s, c)[2]),
                       <<0, 0, 0, 0>>)[k]])
  IN  [s EXCEPT !.pc = "normalize",
                !.finalData = [t \in Pixels |->
                   <<ch(t, 1), ch(t, 2), ch(t, 3), 255 * Cardinality(to(t))>>],
                !.weights = [t \in Pixels |-> Cardinality(to(t))]]

ReconstructAcc(s) ==
  {<<Xof(i), Yof(i)>> : i \in Pixels}
  \cup UNION {{<<Xof(c[1]) + c[2][1], Yof(c[1]) + c[2][2]>>, SourceOf(s, c)} :
                c \in Contributions(s)}

\* ---- lines 282-296: normalize, clear the mask, write the image back -----
PutImageData(canvas, buf) == buf

\* variant: the pixel keeps the alpha the canvas holds
NormalizePixelCanvasAlpha(s, i) ==
  IF s.weights[i] > 0
  THEN <<ToUint8Clamp(s.finalData[i][1], s.weights[i]),
         ToUint8Clamp(s.finalData[i][2], s.weights[i]),
         ToUint8Clamp(s.finalData[i][3], s.weights[i]),
         s.ctx[i][4]>>
  ELSE s.data[i]
\* lines 284-289: the averaged pixel
NormalizePixel(s, i) ==
  IF s.weights[i] > 0
  THEN <<ToUint8Clamp(s.finalData[i][1], s.weights[i]),
         ToUint8Clamp(s.finalData[i][2], s.weights[i]),
         ToUint8Clamp(s.finalData[i][3], s.weights[i]),
         255>>
  ELSE s.data[i]

\* variant: the mask entry is left alone
ClearMaskNever(s, i) == s.mask[i]
\* lines 284, 291-292: the mask entry of a pixel that got a contribution
ClearMask(s, i) == IF s.weights[i] > 0 THEN 0 ELSE s.mask[i]

NormalizeStep(s) ==
  LET nd == [i \in Pixels |-> NormalizePixel(s, i)]
  IN  [s EXCEPT !.pc = "done",
                !.data = nd,
                !.mask = [i \in Pixels |-> ClearMask(s, i)],
                !.ctx = PutImageData(s.ctx, nd)]

\* ---- the state machine --------------------------------------------------
\* the locals of a call that has not started
Fresh(img, msk) ==
  [pc |-> "start", ctx |-> img, maskCtx |-> msk, data |-> <<>>, mask |-> <<>>,
   nnf |-> <<>>, nnfDist |-> <<>>, validPixels |-> <<>>,
   iter |-> 0, x |-> 0, y |-> 0, bestX |-> 0, bestY |-> 0,
   bestDist |-> [n |-> 0, d |-> 1, f32 |-> TRUE], radius |-> <<0, 1>>,
   finalData |-> <<>>, weights |-> <<>>]

IsRun(s) ==
  /\ pc = s.pc /\ ctx = s.ctx /\ maskCtx = s.maskCtx /\ data = s.data
  /\ mask = s.mask /\ nnf = s.nnf /\ nnfDist = s.nnfDist
  /\ validPixels = s.validPixels /\ iter = s.iter /\ x = s.x /\ y = s.y
  /\ bestX = s.bestX /\ bestY = s.bestY /\ bestDist = s.bestDist
  /\ radius = s.radius /\ finalData = s.finalData /\ weights = s.weights

Set(s) ==
  /\ pc' = s.pc /\ ctx' = s.ctx /\ maskCtx' = s.maskCtx /\ data' = s.data
  /\ mask' = s.mask /\ nnf' = s.nnf /\ nnfDist' = s.nnfDist
  /\ validPixels' = s.validPixels /\ iter' = s.iter /\ x' = s.x /\ y' = s.y
  /\ bestX' = s.bestX /\ bestY' = s.bestY /\ bestDist' = s.bestDist
  /\ radius' = s.radius /\ finalData' = s.finalData /\ weights' = s.weights

InBounds(c) == c[1] >= 0 /\ c[1] < width /\ c[2] >= 0 /\ c[2] < height

\* a step of the call: the run moves to n, the twin (given the same random
\* numbers) to t, and the accessed coordinates acc are checked
Step(n, t, acc) ==
  /\ \E m \in {n} : Set(m)
  /\ twin' = IF phase = "lockstep" THEN t ELSE twin
  /\ oob' = (oob \/ \E c \in acc : ~InBounds(c))
  /\ visited' = IF pc = "visit" THEN Append(visited, <<iter, x, y>>) ELSE visited
  /\ UNCHANGED <<width, height, imgIn, maskIn, phase, result>>
  /\ UNCHANGED <<loaderVars, historyVars>>

Images ==
  {[i \in Pixels |-> <<RGBof(sh[i])[1], RGBof(sh[i])[2], RGBof(sh[i])[3],
                       ImageAlpha(opaque, i)>>] :
     sh \in [Pixels -> Shades], opaque \in BOOLEAN}
Masks ==
  {[i \in Pixels |-> IF i \in S THEN StrokeAlpha(i) ELSE 0] : S \in SUBSET Pixels}

InitInputs ==
  /\ \E d \in Dims : width = d[1] /\ height = d[2]
  /\ imgIn \in Images
  /\ maskIn \in Masks
  /\ IsRun(Fresh(imgIn, maskIn))
  /\ oob = FALSE
  /\ twin = Fresh(imgIn, maskIn)
  /\ visited = <<>>
  /\ sample = <<>>
  /\ result = <<>>
  /\ LoaderInit /\ HistoryInit

Init == InitInputs /\ phase = "single"

MaskedPixels(m) == {i \in Pixels : isMasked(m, Xof(i), Yof(i))}

Begin ==
  /\ pc = "start" /\ Step(BeginStep(Cur), BeginStep(twin), BeginAcc(Cur))
  /\ UNCHANGED sample

Seed ==
  /\ pc = "seed"
  /\ \E rs \in [MaskedPixels(mask) -> Draws] :
       Step(SeedStep(Cur, rs), SeedStep(twin, rs), SeedAcc(Cur, rs))
  /\ UNCHANGED sample

InitDist ==
  /\ pc = "initdist"
  /\ Step(InitDistStep(Cur), InitDistStep(twin), InitDistAcc(Cur))
  /\ UNCHANGED sample

Propagate ==
  /\ pc = "visit"
  /\ Step(PropagateStep(Cur), PropagateStep(twin), PropagateAcc(Cur))
  /\ UNCHANGED sample

Sample ==
  /\ pc = "search" /\ radius[1] > radius[2]
  /\ \E r1 \in Draws, r2 \in Draws :
       /\ Step(SampleStep(Cur, r1, r2), SampleStep(twin, r1, r2),
               SampleAcc(Cur, r1, r2))
       /\ sample' = IF phase = "probe" THEN SamplePoint(Cur, r1, r2) ELSE sample

Commit ==
  /\ pc = "search" /\ ~(radius[1] > radius[2])
  /\ Step(CommitStep(Cur), CommitStep(twin), CommitAcc(Cur))
  /\ sample' = <<>>

Reconstruct ==
  /\ pc = "reconstruct"
  /\ Step(ReconstructStep(Cur), ReconstructStep(twin), ReconstructAcc(Cur))
  /\ UNCHANGED sample

Normalize ==
  /\ pc = "normalize"
  /\ Step(NormalizeStep(Cur), NormalizeStep(twin), {<<Xof(i), Yof(i)>> : i \in Pixels})
  /\ UNCHANGED sample

Next ==
  \/ Begin \/ Seed \/ InitDist \/ Propagate \/ Sample \/ Commit
  \/ Reconstruct \/ Normalize

Spec == Init /\ [][Next]_vars

\* ---- two runs on the same inputs with the same random numbers ----------
\* A first call runs to its end.  Then the canvases are loaded with the
\* same inputs again and the call is made twice side by side: once where
\* nothing has run before, and once (twin) where the first call has left
\* its buffers behind.  Both are fed the same random numbers.
\* (The call never reads the image's alpha, so translucent pictures, whose
\* alpha differs from pixel to pixel, stand for all.)
InitDet == InitInputs /\ phase = "first" /\ imgIn[0][4] # 255

SecondCall ==
  /\ phase = "first" /\ pc = "done"
  /\ twin' = [Cur EXCEPT !.pc = "start", !.ctx = imgIn, !.maskCtx = maskIn]
  /\ Set(Fresh(imgIn, maskIn))
  /\ phase' = "lockstep"
  /\ visited' = <<>>
  /\ UNCHANGED <<width, height, imgIn, maskIn, oob, sample, result>>
  /\ UNCHANGED <<loaderVars, historyVars>>

NextDet == Next \/ SecondCall

SpecDet == InitDet /\ [][NextDet]_vars

\* ---- a wider picture ----------------------------------------------------
\* A red ramp on a row of four pixels (and on a 2x2 square): colours far
\* enough apart for a mixture to differ from both, rows long enough for a
\* patch overlap of three pixels and for a sampling window that does not
\* cover the image.  A masked pixel's input colour is overwritten by the
\* seeding before anything reads it, so it is fixed to the first shade.
RGBwide(s) == <<4 * s, 0, 255>>
DimsWide == {<<4, 1>>, <<2, 2>>}
ImagesWide ==
  {[i \in Pixels |-> <<RGBwide(sh[i])[1], RGBwide(sh[i])[2], RGBwide(sh[i])[3], 255>>] :
     sh \in [Pixels -> Shades]}

InitRamp(dims, ph) ==
  /\ \E d \in dims : width = d[1] /\ height = d[2]
  /\ imgIn \in ImagesWide
  /\ maskIn \in Masks
  /\ \A i \in Pixels : maskIn[i] > 0 => imgIn[i] = <<0, 0, 255, 255>>
  /\ IsRun(Fresh(imgIn, maskIn))
  /\ oob = FALSE
  /\ twin = Fresh(imgIn, maskIn)
  /\ visited = <<>>
  /\ sample = <<>>
  /\ result = <<>>
  /\ LoaderInit /\ HistoryInit
  /\ phase = ph

InitWide == InitRamp(DimsWide, "single")

SpecWide == InitWide /\ [][Next]_vars

\* the same pictures in every size, with rx, ry of each sample recorded
InitProbe == InitRamp(Dims \cup {<<4, 1>>}, "probe")

SpecProbe == InitProbe /\ [][Next]_vars

\* a row of five pixels, long enough for a hole of two pixels next to two
\* adjacent sources; the strokes cover one end, the middle, or one pixel
DimsRow == {<<5, 1>>}
RowStrokes == {{0, 1}, {3, 4}, {1, 2}, {2}}
InitRow ==
  /\ InitRamp(DimsRow, "single")
  /\ {i \in Pixels : maskIn[i] > 0} \in RowStrokes

SpecRow == InitRow /\ [][Next]_vars

\* two runs side by side on pictures that differ under the stroke only: the
\* twin's picture has a foreign translucent colour there, and both runs are
\* given the same random numbers
Foreign == <<200, 100, 0, 77>>
InitTwin ==
  /\ \E d \in DimsWide : width = d[1] /\ height = d[2]
  /\ imgIn \in ImagesWide
  /\ maskIn \in Masks
  /\ \A i \in Pixels : maskIn[i] > 0 => imgIn[i] = <<0, 0, 255, 255>>
  /\ IsRun(Fresh(imgIn, maskIn))
  /\ oob = FALSE
  /\ twin = Fresh([i \in Pixels |-> IF maskIn[i] > 0 THEN Foreign ELSE imgIn[i]],
                  maskIn)
  /\ visited = <<>>
  /\ sample = <<>>
  /\ result = <<>>
  /\ LoaderInit /\ HistoryInit
  /\ phase = "lockstep"

SpecTwin == InitTwin /\ [][Next]_vars

\* a second call on what a successful first one produced: the image canvas
\* it wrote and the mask buffer it cleared; twin keeps the first run's end
CallAgain ==
  /\ phase = "before" /\ pc = "done" /\ Len(validPixels) > 0
  /\ twin' = Cur
  /\ Set(Fresh(ctx, mask))
  /\ phase' = "after"
  /\ visited' = <<>>
  /\ UNCHANGED <<width, height, imgIn, maskIn, oob, sample, result>>
  /\ UNCHANGED <<loaderVars, historyVars>>

InitAgain == InitRamp(DimsWide, "before")

NextAgain == Next \/ CallAgain

SpecAgain == InitAgain /\ [][NextAgain]_vars

\* a row of six pixels, longer than halfPatch + 1, with a stroke at the left
\* end; the picture is translucent, and flat in the middle of the row
DimsFar == {<<6, 1>>}
FarStrokes == {{0}, {0, 1}}
FlatPixels == {3, 4}
ImagesFar ==
  {[i \in Pixels |-> <<RGBwide(sh[i])[1], RGBwide(sh[i])[2], RGBwide(sh[i])[3],
                        ImageAlpha(FALSE, i)>>] :
     sh \in {f \in [Pixels -> Shades] : \A i \in FlatPixels \cap Pixels : f[i] = 0}}
InitFar ==
  /\ \E d \in DimsFar : width = d[1] /\ height = d[2]
  /\ imgIn \in ImagesFar
  /\ maskIn \in Masks
  /\ {i \in Pixels : maskIn[i] > 0} \in FarStrokes
  /\ \A i \in Pixels :
        maskIn[i] > 0 => <<imgIn[i][1], imgIn[i][2], imgIn[i][3]>> = <<0, 0, 255>>
  /\ IsRun(Fresh(imgIn, maskIn))
  /\ oob = FALSE
  /\ twin = Fresh(imgIn, maskIn)
  /\ visited = <<>>
  /\ sample = <<>>
  /\ result = <<>>
  /\ LoaderInit /\ HistoryInit
  /\ phase = "single"

SpecFar == InitFar /\ [][Next]_vars

\* ---- the neural path of handleApplyErase (lines 967-990) ----------------
\* What lamaInpainting.run hands back: an opaque image of the canvas's size
\* (postprocess), or nothing (the declared ImageData | null).
Results == {img \in Images : \A i \in Pixels : img[i][4] = 255} \cup {<<>>}

\* variant: the result replaces every pixel
BlendPixelAll(orig, m, res) == <<res[1], res[2], res[3], 255>>
\* lines 979-986: one pixel of the blend, m the mask's alpha
BlendPixel(orig, m, res) ==
  IF m > 0 THEN <<res[1], res[2], res[3], 255>> ELSE orig

\* line 968: the model answers, or run throws and the handler's catch
\* (line 1017) drops the canvases
LamaRun ==
  /\ pc = "start"
  /\ \/ \E r \in Results : result' = r /\ pc' = "blend"
     \/ result' = result /\ pc' = "failed"
  /\ UNCHANGED <<width, height, imgIn, maskIn, ctx, maskCtx, data, mask, nnf,
                 nnfDist, validPixels, iter, x, y, bestX, bestY, bestDist,
                 radius, finalData, weights, oob, twin, phase, visited, sample>>
  /\ UNCHANGED <<loaderVars, historyVars>>

\* lines 969-989
LamaBlend ==
  /\ pc = "blend"
  /\ IF result # <<>>
     THEN LET originalData == GetImageData(ctx, <<>>)
              maskData     == GetImageData(maskCtx, <<>>)
          IN  ctx' = PutImageData(ctx, [i \in Pixels |->
                       BlendPixel(originalData[i], maskData[i], result[i])])
     ELSE ctx' = ctx
  /\ pc' = "done"
  /\ UNCHANGED <<width, height, imgIn, maskIn, maskCtx, data, mask, nnf,
                 nnfDist, validPixels, iter, x, y, bestX, bestY, bestDist,
                 radius, finalData, weights, oob, twin, phase, visited, sample,
                 result>>
  /\ UNCHANGED <<loaderVars, historyVars>>

NextLama == LamaRun \/ LamaBlend

SpecLama == Init /\ [][NextLama]_vars

\* ---- lamaInpainting.ts lines 31-96: init() and run() ---------------------
\* Each action is what one caller does between two awaits.  A caller's
\* position names the promise it awaits: the timer of the polling loop, the
\* fetch of the model or of the fallback, the array buffer, the session's
\* creation, the init() called by run(), or the inference.
\* a single picture, nothing masked: the editor while the model is loading
PaintIdle ==
  /\ Init /\ width = 1 /\ height = 1
  /\ imgIn[0] = <<0, 0, 255, 255>> /\ maskIn[0] = 0

\* variant: the caller sleeps once instead of looping
WaitingNever(flag) == FALSE
\* while (this.isInitializing), line 35
Waiting(flag) == flag

\* where a caller stands once its init() has returned
Returned(op) == IF op = "run" THEN "initDone" ELSE "returned"

\* lines 38-41: after the loop, or straight from line 33
AfterLoop(op) ==
  IF session # NoSession THEN [at |-> Returned(op), flag |-> isInitializing]
  ELSE [at |-> "fetch1", flag |-> TRUE]

\* lines 32-41 and 45: init() from its call to its first await or return
InitEntry(op) ==
  IF session # NoSession THEN [at |-> Returned(op), flag |-> isInitializing]
  ELSE IF isInitializing
       THEN IF Waiting(isInitializing)
            THEN [at |-> "polling", flag |-> isInitializing]
            ELSE AfterLoop(op)
       ELSE [at |-> "fetch1", flag |-> TRUE]

Goes(c, op, r) ==
  /\ calls' = [calls EXCEPT ![c] = [op |-> op, at |-> r.at]]
  /\ isInitializing' = r.flag
  /\ UNCHANGED <<paintVars, historyVars>>

\* the catch block rethrows and the finally block runs (lines 76-89)
Fails(c) ==
  /\ calls' = [calls EXCEPT ![c].at = "failed"]
  /\ isInitializing' = FALSE
  /\ UNCHANGED <<session, created, paintVars, historyVars>>

Moves(c, to) ==
  /\ calls' = [calls EXCEPT ![c].at = to]
  /\ UNCHANGED <<session, isInitializing, created, paintVars, historyVars>>

CallInit(c) ==
  /\ calls[c].at = "idle"
  /\ Goes(c, "init", InitEntry("init"))
  /\ UNCHANGED <<session, created>>

\* lines 92-96 and, with a session, 98-116 up to await this.session.run
CallRun(c) ==
  /\ calls[c].at = "idle"
  /\ IF session = NoSession
     THEN Goes(c, "run", InitEntry("run"))
     ELSE Goes(c, "run", [at |-> "inference", flag |-> isInitializing])
  /\ UNCHANGED <<session, created>>

\* lines 35-41: the timer fired and the flag is down
Wake(c) ==
  /\ calls[c].at = "polling"
  /\ ~Waiting(isInitializing)
  /\ Goes(c, calls[c].op, AfterLoop(calls[c].op))
  /\ UNCHANGED <<session, created>>

\* line 47 answered: response.ok, not ok, or the fetch rejected
FetchModel(c) ==
  /\ calls[c].at = "fetch1"
  /\ \/ Moves(c, "buffer")
     \/ Moves(c, "fetch2")
     \/ Fails(c)

\* line 52 answered
FetchFallback(c) ==
  /\ calls[c].at = "fetch2"
  /\ \/ Moves(c, "buffer")
     \/ Fails(c)

\* line 60 answered: a buffer of at least 1 MB, or a smaller one, or an error
ReadBuffer(c) ==
  /\ calls[c].at = "buffer"
  /\ \/ Moves(c, "create")
     \/ Fails(c)

\* line 75 answered: the session is assigned and the finally block runs
CreateSession(c) ==
  /\ calls[c].at = "create"
  /\ \/ /\ session' = c
        /\ created' = created + 1
        /\ isInitializing' = FALSE
        /\ calls' = [calls EXCEPT ![c].at = Returned(calls[c].op)]
        /\ UNCHANGED <<paintVars, historyVars>>
     \/ Fails(c)

\* lines 95-116: run() goes on after await this.init()
ResumeRun(c) ==
  /\ calls[c].at = "initDone"
  /\ Moves(c, IF session = NoSession THEN "failed" ELSE "inference")

\* lines 116-123
Infer(c) ==
  /\ calls[c].at = "inference"
  /\ \/ Moves(c, "returned")
     \/ Moves(c, "failed")

NextLoader ==
  \E c \in Callers :
     \/ CallInit(c) \/ CallRun(c) \/ Wake(c) \/ FetchModel(c)
     \/ FetchFallback(c) \/ ReadBuffer(c) \/ CreateSession(c)
     \/ ResumeRun(c) \/ Infer(c)

SpecLoader == PaintIdle /\ [][NextLoader]_vars

\* ---- SmartPhotoEditor.tsx lines 538-572: the undo list -------------------
\* A handler is a closure of the render it was created in: it reads the
\* historyStep and the history of that render.  A click runs the handler of
\* the current render; a callback of an upload or of an erase runs the
\* saveHistory of the render in which the upload or the erase was started.
Without(q, k) == [j \in 1..(Len(q) - 1) |-> IF j < k THEN q[j] ELSE q[j + 1]]

\* prev.slice(0, end)
slice(prev, end) == SubSeq(prev, 1, Min(end, Len(prev)))

\* lines 539-548, in a closure that captured the step c; q is what is still
\* in flight afterwards
saveHistory(c, q) ==
  /\ IF isProcessing
     THEN UNCHANGED <<history, historyStep, saves>>
     ELSE /\ history' = Append(slice(history, c + 1), saves + 1)
          /\ historyStep' = historyStep + 1
          /\ saves' = saves + 1
  /\ pending' = q
  /\ UNCHANGED <<isProcessing, paintVars, loaderVars>>

\* lines 408-474 (reader.onload, FabricImage.fromURL) and 918-1016: an
\* upload or an erase starts; its closure holds the step of this render
StartAsync ==
  /\ Len(pending) < MaxPending
  /\ pending' = Append(pending, [kind |-> "save", step |-> historyStep])
  /\ UNCHANGED <<history, historyStep, isProcessing, saves, paintVars, loaderVars>>

\* lines 469 and 1016: the callback runs
SaveLater ==
  \E k \in 1..Len(pending) :
     /\ pending[k].kind = "save"
     /\ saves < MaxSaves
     /\ saveHistory(pending[k].step, Without(pending, k))

\* lines 676, 784, 836: saveHistory called by a handler of this render
SaveNow ==
  /\ saves < MaxSaves
  /\ saveHistory(historyStep, pending)

\* lines 552-555 and 564-567: the flag is raised and the snapshot at index
\* step is loaded; history[step] of an index past the end is undefined and
\* JSON.parse(undefined) throws, which leaves the flag raised
Load(step) ==
  /\ Len(pending) < MaxPending
  /\ isProcessing' = TRUE
  /\ pending' = IF step < Len(history)
                 THEN Append(pending, [kind |-> "load", step |-> step])
                 ELSE pending
  /\ UNCHANGED <<history, historyStep, saves, paintVars, loaderVars>>

\* lines 550-560
undo ==
  /\ ~(historyStep <= 0)
  /\ Load(historyStep - 1)

\* lines 562-572
redo ==
  /\ ~(historyStep >= Len(history) - 1)
  /\ Load(historyStep + 1)

\* lines 555-559 and 567-571: loadFromJSON resolved
Loaded ==
  \E k \in 1..Len(pending) :
     /\ pending[k].kind = "load"
     /\ historyStep' = pending[k].step
     /\ isProcessing' = FALSE
     /\ pending' = Without(pending, k)
     /\ UNCHANGED <<history, saves, paintVars, loaderVars>>

NextHistory == StartAsync \/ SaveLater \/ SaveNow \/ undo \/ redo \/ Loaded

SpecHistory == PaintIdle /\ [][NextHistory]_vars

\* ---- vocabulary of the properties ---------------------------------------
RGB(p) == <<p[1], p[2], p[3]>>
WasMasked(i) == maskIn[i] > 0
HadSource == \E i \in Pixels : ~WasMasked(i)
Done == pc = "done"
\* the call got past the initialization of lines 119-143
AfterInit ==
  \/ pc \in {"initdist", "visit", "search", "reconstruct", "normalize"}
  \/ pc = "done" /\ HadSource

\* C1: after a run with a non-empty valid set, every pixel that was unmasked
\* before the call has the R, G and B it had in the input image.
C1_UnmaskedPreserved ==
  (Done /\ HadSource) =>
     \A i \in Pixels : ~WasMasked(i) => RGB(ctx[i]) = RGB(imgIn[i])

\* C2: in every state after initialization, the NNF entry of every pixel
\* masked in the original mask is an in-bounds coordinate that the original
\* mask leaves unmasked.
C2_SourceNeverFromHole ==
  AfterInit =>
     \A i \in Pixels : WasMasked(i) =>
        /\ InBounds(nnf[i])
        /\ maskIn[nnf[i][2] * width + nnf[i][1]] = 0

C2_Witness ==
  /\ pc = "visit" /\ iter = 1
  /\ \E i \in Pixels : WasMasked(i) /\ RGB(data[i]) # RGB(imgIn[i])
  /\ Cardinality({i \in Pixels : WasMasked(i)}) >= 2

\* C3: with an all-zero mask the call leaves all four channels of every
\* pixel as they were.
C3_EmptyMaskUnchanged ==
  (Done /\ \A i \in Pixels : ~WasMasked(i)) => ctx = imgIn

\* C4: when every pixel is masked the call returns at once: it never seeds,
\* never throws, and leaves every byte of the image and of the mask alone.
C4_NoOpWithoutSource ==
  (~HadSource) =>
     /\ pc \in {"start", "done"}
     /\ ctx = imgIn /\ maskCtx = maskIn
     /\ pc = "done" => (data = imgIn /\ mask = maskIn)

C4_Witness ==
  /\ Done /\ ~HadSource /\ width * height >= 2
  /\ \E i \in Pixels : imgIn[i][4] # 255

\* C5 as stated: every pixel masked before the call has alpha 255 in the
\* output, for every image and every mask.
C5_AlwaysOpaque ==
  Done => \A i \in Pixels : WasMasked(i) => ctx[i][4] = 255

\* C5 amended: after a run with a non-empty valid set, every pixel masked
\* before the call has alpha 255 in the output.
C5_OpaqueWhenFilled ==
  (Done /\ HadSource) => \A i \in Pixels : WasMasked(i) => ctx[i][4] = 255

C5_Witness ==
  /\ Done /\ HadSource
  /\ \E i \in Pixels : WasMasked(i) /\ imgIn[i][4] # 255 /\ ctx[i][4] = 255

\* C6: after a run with a non-empty valid set and a masked pixel, the mask
\* buffer the call worked on has alpha 0 at every pixel masked before.
C6_MaskCleared ==
  (Done /\ HadSource) => \A i \in Pixels : WasMasked(i) => mask[i] = 0

C6_Witness ==
  /\ Done /\ HadSource
  /\ \E i \in Pixels : WasMasked(i) /\ mask[i] = 0 /\ maskIn[i] = 128

\* C7: after a successful call the mask canvas the caller passed in reads
\* alpha 0 at every filled pixel.
C7_CallerSeesClearedMask ==
  (Done /\ HadSource) => \A i \in Pixels : WasMasked(i) => maskCtx[i] = 0

\* C8: in every state after initialization, every pixel unmasked in the
\* original mask has itself as NNF source and a stored error of 0; the pixel
\* a refinement pass is visiting, whose entries it writes, is a masked one.
C8_IdentityOnUnmasked ==
  /\ AfterInit =>
       \A i \in Pixels : ~WasMasked(i) =>
          nnf[i] = <<i % width, i \div width>> /\ nnfDist[i] = [n |-> 0, d |-> 1]
  /\ pc \in {"visit", "search"} => WasMasked(y * width + x)

C8_Witness ==
  /\ Done /\ width = 2 /\ height = 2
  /\ \E i, j \in Pixels : i # 0 /\ ~WasMasked(i) /\ WasMasked(j)

C10_AccessesInBounds ==
  /\ ~oob
  /\ pc # "throw"
  /\ pc = "search" => InBounds(<<bestX, bestY>>)

C10_Witness ==
  /\ Done /\ HadSource /\ ~oob
  /\ \E i \in Pixels : WasMasked(i) /\ nnf[i] # <<0, 0>>

\* ---- scenarios ----------------------------------------------------------
\* every pixel the original mask leaves unmasked holds the pixel value c
UniformSource(c) == \A i \in Pixels : ~WasMasked(i) => imgIn[i] = c

\* C11: when every unmasked pixel of the input has one opaque colour c, a
\* run with a non-empty valid set ends with the pixel value (c, alpha 255)
\* at every pixel masked before and with every other pixel unchanged,
\* whatever random numbers were drawn.
C11_UniformFill ==
  \A j \in Pixels :
     (Done /\ ~WasMasked(j) /\ imgIn[j][4] = 255 /\ UniformSource(imgIn[j])) =>
        \A i \in Pixels : ctx[i] = imgIn[j]

C11_Witness ==
  /\ Done /\ width * height >= 3
  /\ \E j \in Pixels :
        /\ ~WasMasked(j) /\ imgIn[j][4] = 255 /\ UniformSource(imgIn[j])
        /\ \E i \in Pixels : WasMasked(i) /\ RGB(imgIn[i]) # RGB(imgIn[j])
                              /\ ctx[i] = imgIn[j]
        /\ \E i \in Pixels : i # j /\ ~WasMasked(i)

\* the colours of the pixels the original mask leaves unmasked
SourceColours == {RGB(imgIn[i]) : i \in {j \in Pixels : ~WasMasked(j)}}
\* the channel-wise mean of two colours, rounded down, up, or as a
\* Uint8ClampedArray rounds
Means(A, B) ==
  {<<(A[1] + B[1]) \div 2, (A[2] + B[2]) \div 2, (A[3] + B[3]) \div 2>>,
   <<(A[1] + B[1] + 1) \div 2, (A[2] + B[2] + 1) \div 2, (A[3] + B[3] + 1) \div 2>>,
   <<ToUint8Clamp(A[1] + B[1], 2), ToUint8Clamp(A[2] + B[2], 2),
     ToUint8Clamp(A[3] + B[3], 2)>>}
Between(v, a, b) == Min(a, b) <= v /\ v <= Max(a, b)

\* C12 as stated: when the unmasked pixels of the input take exactly two
\* colours A and B, every filled pixel ends with alpha 255 and with an RGB
\* that is A, B or the mean of A and B.
C12_OnlyABOrMean ==
  \A A, B \in SourceColours :
     (Done /\ A # B /\ SourceColours = {A, B}) =>
        \A i \in Pixels : WasMasked(i) =>
           /\ ctx[i][4] = 255
           /\ RGB(ctx[i]) \in {A, B} \cup Means(A, B)

\* C12 amended: when the unmasked pixels of the input take exactly two
\* colours A and B, every filled pixel ends with alpha 255 and with every
\* channel inside the range spanned by that channel of A and of B.
C12_WithinSpan ==
  \A A, B \in SourceColours :
     (Done /\ A # B /\ SourceColours = {A, B}) =>
        \A i \in Pixels : WasMasked(i) =>
           /\ ctx[i][4] = 255
           /\ \A k \in 1..3 : Between(ctx[i][k], A[k], B[k])

C12_Witness ==
  /\ Done
  /\ \E A, B \in SourceColours :
        /\ A # B /\ SourceColours = {A, B}
        /\ \E i \in Pixels : WasMasked(i) /\ RGB(ctx[i]) \notin {A, B}
        /\ \E i \in Pixels : WasMasked(i) /\ RGB(ctx[i]) \in {A, B}

\* C13: when the neural path has a result, the image written back has, at
\* every pixel whose mask alpha is above 0, the result's RGB with alpha 255,
\* and at every other pixel the four channels of the original; when the
\* model returns nothing the image is the original.
C13_BlendOnlyMasked ==
  Done =>
     IF result # <<>>
     THEN \A i \in Pixels :
            ctx[i] = IF WasMasked(i)
                     THEN <<result[i][1], result[i][2], result[i][3], 255>>
                     ELSE imgIn[i]
     ELSE ctx = imgIn

C13_Witness ==
  /\ Done /\ result # <<>>
  /\ \E i \in Pixels : WasMasked(i) /\ RGB(ctx[i]) # RGB(imgIn[i])
                        /\ imgIn[i][4] # 255 /\ ctx[i][4] = 255
  /\ \E i \in Pixels : ~WasMasked(i) /\ RGB(result[i]) # RGB(imgIn[i])
                        /\ ctx[i] = imgIn[i]

\* ---- the refinement passes ----------------------------------------------
\* the pixels visited in pass it, in the order of their visits
RECURSIVE PassOrder(_, _)
PassOrder(log, it) ==
  IF log = <<>> THEN <<>>
  ELSE (IF Head(log)[1] = it THEN <<Head(log)[3] * width + Head(log)[2]>> ELSE <<>>)
       \o PassOrder(Tail(log), it)

\* the masked pixels' visits asked of every pass
ExactPasses ==
  /\ \A k \in 1..Len(visited) : visited[k][1] \in 0..(iterations - 1)
  /\ \A it \in 0..(iterations - 1) :
        Len(PassOrder(visited, it)) = Cardinality({i \in Pixels : WasMasked(i)})

\* the samples a visit still draws, and the steps one visit takes at most
RECURSIVE SamplesLeft(_)
SamplesLeft(rad) ==
  IF rad[1] > rad[2] THEN 1 + SamplesLeft(<<rad[1], 2 * rad[2]>>) ELSE 0
VisitSteps == SamplesLeft(<<Max(width, height), 1>>) + 2
\* the scan positions from <<iter, x, y>> to the end of the last pass
ScanLeft ==
  (iterations - iter) * width * height
  - (IF isReverse(iter) THEN width * height - 1 - (y * width + x)
     ELSE y * width + x)
\* an upper bound of the steps the call still takes
Rank ==
  CASE pc = "start"       -> iterations * width * height * VisitSteps + 5
    [] pc = "seed"        -> iterations * width * height * VisitSteps + 4
    [] pc = "initdist"    -> iterations * width * height * VisitSteps + 3
    [] pc = "visit"       -> ScanLeft * VisitSteps + 2
    [] pc = "search"      -> (ScanLeft - 1) * VisitSteps + 3 + SamplesLeft(radius)
    [] pc = "reconstruct" -> 2
    [] pc = "normalize"   -> 1
    [] OTHER              -> 0

\* C14: a call with a non-empty valid set makes exactly `iterations`
\* passes, numbered 0..iterations-1, each with one visit per masked pixel,
\* before it reconstructs; and every call returns: it never throws, and
\* every step of it lowers a bound of the steps still to take.
C14_FixedPassesThenReturn ==
  /\ []((pc \in {"reconstruct", "normalize"} \/ (Done /\ HadSource)) =>
          (ExactPasses /\ (Done => weights # <<>>)))
  /\ [](pc # "throw")
  /\ [][Rank' < Rank /\ Rank' >= 0]_vars

C14_Witness ==
  /\ Done /\ HadSource /\ weights # <<>>
  /\ Len(visited) = 2 * iterations
  /\ Len(PassOrder(visited, iterations - 1)) = 2

\* pass it has ended
PassOver(it) == pc \in {"reconstruct", "normalize", "done"} \/ iter > it
Ascending(q) == \A k \in 1..(Len(q) - 1) : q[k] < q[k + 1]
Descending(q) == \A k \in 1..(Len(q) - 1) : q[k] > q[k + 1]

\* C15: the visits of an even-numbered pass are in increasing raster order
\* (y ascending, then x ascending), those of an odd-numbered pass in
\* decreasing raster order; a pass visits masked pixels only and no pixel
\* twice, and once it has ended it has visited every masked pixel.
C15_ScanOrder ==
  \A it \in 0..(iterations - 1) :
     LET q == PassOrder(visited, it)
     IN  /\ IF it % 2 = 0 THEN Ascending(q) ELSE Descending(q)
         /\ \A k \in 1..Len(q) : WasMasked(q[k])
         /\ (HadSource /\ PassOver(it)) =>
               {q[k] : k \in 1..Len(q)} = {i \in Pixels : WasMasked(i)}

C15_Witness ==
  /\ Done /\ width = 2 /\ height = 2
  /\ PassOrder(visited, 0) = <<0, 3>>
  /\ PassOrder(visited, 1) = <<3, 0>>
  /\ PassOrder(visited, 4) = <<0, 3>>

\* the k-th visit's neighbour in direction nb is a masked pixel of the image
MaskedNeighbour(k, nb) ==
  /\ InBounds(<<visited[k][2] + nb[1], visited[k][3] + nb[2]>>)
  /\ WasMasked((visited[k][3] + nb[2]) * width + visited[k][2] + nb[1])

\* C16: when a pixel is visited, each of the two neighbours its
\* propagation reads that lies in the image and is masked has been visited
\* before it in the same pass (and has committed its NNF entry, a visit
\* ending before the next begins).
C16_NeighboursDoneFirst ==
  \A k \in 1..Len(visited) : \A n \in 1..2 :
     LET nb == neighbors(visited[k][1])[n]
     IN  MaskedNeighbour(k, nb) =>
           \E j \in 1..(k - 1) :
              visited[j] = <<visited[k][1], visited[k][2] + nb[1],
                             visited[k][3] + nb[2]>>

C16_Witness ==
  /\ pc = "search" /\ iter = 1 /\ visited # <<>>
  /\ visited[Len(visited)] = <<1, x, y>>
  /\ MaskedNeighbour(Len(visited), <<1, 0>>)
  /\ MaskedNeighbour(Len(visited), <<0, 1>>)

\* ---- one pixel visit -----------------------------------------------------
\* the number c = c.n/c.d is strictly below the number the Float32 entry
\* e holds, which is e.n/e.d rounded to 24 bits
BelowStored(c, e) ==
  /\ c.d # 0
  /\ \/ e.d = 0
     \/ c.n * e.d < e.n * c.d
     \/ c.n * e.d = e.n * c.d /\ F32RoundsUp(e.n, e.d)

\* the proposal of the neighbour at offset nb of the pixel being visited
Proposal(nb) ==
  <<nnf[(y + nb[2]) * width + x + nb[1]][1] - nb[1],
    nnf[(y + nb[2]) * width + x + nb[1]][2] - nb[2]>>

\* C17: the propagation of a visit replaces the pixel's source only by a
\* proposal NNF(n) - d of a neighbour n = p + d inside the image, and only
\* if the proposal is inside the image, unmasked in the original mask and
\* at a patchDist from p strictly below the stored error; the proposal of
\* an unmasked neighbour is p itself, and p is never taken.
C17_PropagationAccepts ==
  [][(pc = "visit" /\ pc' = "search") =>
       LET b == <<bestX', bestY'>>
       IN  /\ b # <<x, y>>
           /\ \A k \in 1..2 :
                 LET nb == neighbors(iter)[k]
                 IN  (InBounds(<<x + nb[1], y + nb[2]>>)
                      /\ ~WasMasked((y + nb[2]) * width + x + nb[1])) =>
                        Proposal(nb) = <<x, y>>
           /\ b # nnf[y * width + x] =>
                 /\ \E k \in 1..2 :
                       LET nb == neighbors(iter)[k]
                       IN  InBounds(<<x + nb[1], y + nb[2]>>) /\ b = Proposal(nb)
                 /\ InBounds(b)
                 /\ ~WasMasked(b[2] * width + b[1])
                 /\ BelowStored(patchDist(data, x, y, b[1], b[2]),
                                nnfDist[y * width + x])
                 /\ <<bestDist'.n, bestDist'.d>> =
                      <<patchDist(data, x, y, b[1], b[2]).n,
                        patchDist(data, x, y, b[1], b[2]).d>>]_vars

C17_Witness ==
  /\ pc = "search" /\ radius[2] = 1 /\ iter >= 1
  /\ <<bestX, bestY>> # nnf[y * width + x]
  /\ \E k \in 1..2 :
        LET nb == neighbors(iter)[k]
        IN  /\ InBounds(<<x + nb[1], y + nb[2]>>)
            /\ WasMasked((y + nb[2]) * width + x + nb[1])
            /\ <<bestX, bestY>> = Proposal(nb)

\* the stored error a is strictly below the stored error b (Float32 rounding
\* keeps the order of two different errors of the model's magnitude)
StoredLess(a, b) == a.d # 0 /\ (b.d = 0 \/ a.n * b.d < b.n * a.d)

\* C20: the visit of a pixel either leaves the pixel's NNF source, stored
\* error and working-buffer RGB as they were, or it lowers the stored error
\* strictly; so a candidate that only ties the stored error replaces
\* nothing, and the stored error never increases.
C20_KeepsBestUnlessLower ==
  [][(pc = "search" /\ pc' # "search") =>
       LET p == y * width + x
       IN  \/ /\ nnf'[p] = nnf[p] /\ nnfDist'[p] = nnfDist[p]
              /\ RGB(data'[p]) = RGB(data[p])
           \/ StoredLess(nnfDist'[p], nnfDist[p])]_vars

\* ---- the random search ---------------------------------------------------
\* a step that draws a sample
SampleDrawn == pc = "search" /\ pc' = "search" /\ radius' # radius
\* the schedule of the radius: it starts at max(width, height), a sample
\* is drawn only while it is above 1 and halves it, and the visit is
\* committed only when it is 1 or less
RadiusSchedule ==
  /\ (pc = "visit" /\ pc' = "search") => radius' = <<Max(width, height), 1>>
  /\ SampleDrawn =>
        /\ radius[1] > radius[2]
        /\ radius'[1] * 2 * radius[2] = radius[1] * radius'[2]
  /\ (pc = "search" /\ pc' # "search") => radius[1] <= radius[2]
Abs(v) == IF v < 0 THEN -v ELSE v

\* C18 as stated: the radius follows the schedule, and every sample lies
\* within radius of the best source of the moment on both axes.
C18_SamplesWithinRadius ==
  [][/\ RadiusSchedule
     /\ SampleDrawn =>
          /\ Abs(sample'[1] - bestX) * radius[2] <= radius[1]
          /\ Abs(sample'[2] - bestY) * radius[2] <= radius[1]]_vars

\* C18 amended: the radius follows the schedule, and every sample is the
\* floor of a point within radius of the best source of the moment, so on
\* both axes it lies above best - radius - 1 and below best + radius.
C18_SamplesWithinFlooredRadius ==
  [][/\ RadiusSchedule
     /\ SampleDrawn =>
          /\ (bestX - sample'[1]) * radius[2] < radius[1] + radius[2]
          /\ (sample'[1] - bestX) * radius[2] < radius[1]
          /\ (bestY - sample'[2]) * radius[2] < radius[1] + radius[2]
          /\ (sample'[2] - bestY) * radius[2] < radius[1]]_vars

C18_Witness ==
  /\ pc = "search" /\ sample # <<>> /\ radius[2] = 4
  /\ <<bestX, bestY>> = sample
  /\ Abs(bestX - x) > 1
  /\ nnf[y * width + x] # sample

\* C19: there is one working buffer.  Between two visits every masked
\* pixel holds in it the RGB of the source its NNF entry names, so a commit
\* has written its colour at once; and every distance a visit computes is
\* the patchDist over that buffer as it is at that moment, with the colours
\* committed earlier in the pass.
C19_CommitsVisibleAtOnce ==
  /\ [](pc \in {"visit", "search", "reconstruct"} =>
          \A i \in Pixels : WasMasked(i) =>
             RGB(data[i]) = RGB(data[nnf[i][2] * width + nnf[i][1]]))
  /\ [][(pc \in {"visit", "search"} /\ pc' = "search" /\ ~bestDist'.f32) =>
          <<bestDist'.n, bestDist'.d>> =
            <<patchDist(data, x, y, bestX', bestY').n,
              patchDist(data, x, y, bestX', bestY').d>>]_vars

C19_Witness ==
  /\ pc = "search" /\ ~bestDist.f32 /\ Len(visited) >= 2
  /\ visited[Len(visited)] = <<iter, x, y>>
  /\ LET j == visited[Len(visited) - 1]
     IN  /\ j[1] = iter
         /\ RGB(data[j[3] * width + j[2]]) # RGB(imgIn[j[3] * width + j[2]])
         /\ RGB(data[j[3] * width + j[2]]) # RGB(data[y * width + x])

\* ---- reconstruction -------------------------------------------------------
\* the accumulator of cell i divided by its weight, as the image stores it
Averaged(i) ==
  <<ToUint8Clamp(finalData[i][1], weights[i]),
    ToUint8Clamp(finalData[i][2], weights[i]),
    ToUint8Clamp(finalData[i][3], weights[i])>>

\* C21: after the accumulation every pixel, masked or not, has a weight of
\* at least 1; so a run with a non-empty valid set ends with every pixel
\* rewritten to its average, with alpha 255 and with its mask entry cleared.
C21_EveryPixelWeighted ==
  (pc = "normalize" \/ (Done /\ HadSource)) =>
     \A i \in Pixels :
        /\ weights[i] >= 1
        /\ Done => /\ RGB(ctx[i]) = Averaged(i)
                   /\ ctx[i][4] = 255
                   /\ mask[i] = 0

C21_Witness ==
  /\ Done /\ HadSource
  /\ \E i \in Pixels : WasMasked(i) /\ weights[i] >= 2
  /\ \E i \in Pixels : ~WasMasked(i) /\ imgIn[i][4] # 255 /\ ctx[i][4] = 255
                        /\ RGB(ctx[i]) # RGB(imgIn[i])

\* the working buffer at the end of refinement, from the inputs and the NNF
Refined(q) ==
  IF WasMasked(q[2] * width + q[1])
  THEN RGB(imgIn[nnf[q[2] * width + q[1]][2] * width + nnf[q[2] * width + q[1]][1]])
  ELSE RGB(imgIn[q[2] * width + q[1]])
\* the pairs <<p, d>> with p + d = t and NNF(p) + d inside the image
MeanPairs(t) ==
  {c \in Pixels \X ((-halfPatch..halfPatch) \X (-halfPatch..halfPatch)) :
     /\ Xof(c[1]) + c[2][1] = Xof(t) /\ Yof(c[1]) + c[2][2] = Yof(t)
     /\ InBounds(<<nnf[c[1]][1] + c[2][1], nnf[c[1]][2] + c[2][2]>>)}
MeanSum(t, k) ==
  SumOver(MeanPairs(t), [c \in MeanPairs(t) |->
            Refined(<<nnf[c[1]][1] + c[2][1], nnf[c[1]][2] + c[2][2]>>)[k]])

\* C22: the accumulator of every cell t is the sum, and its weight the
\* number, of the refined buffer's RGB at NNF(p) + d over all pairs (p, d)
\* with p + d = t and NNF(p) + d in bounds; the buffer is still the refined
\* one when all sums are complete, and the final colour is sum / weight.
C22_UnweightedMean ==
  (pc = "normalize" \/ (Done /\ HadSource)) =>
     \A t \in Pixels :
        /\ weights[t] = Cardinality(MeanPairs(t))
        /\ \A k \in 1..3 : finalData[t][k] = MeanSum(t, k)
        /\ pc = "normalize" => RGB(data[t]) = Refined(<<Xof(t), Yof(t)>>)
        /\ Done => \A k \in 1..3 :
                     ctx[t][k] = ToUint8Clamp(MeanSum(t, k), Cardinality(MeanPairs(t)))

C22_Witness ==
  /\ Done /\ HadSource
  /\ \E t \in Pixels :
        /\ WasMasked(t) /\ weights[t] >= 3
        /\ \E c \in MeanPairs(t) :
              /\ Refined(<<nnf[c[1]][1] + c[2][1], nnf[c[1]][2] + c[2][2]>>)
                   # Refined(nnf[c[1]])
              /\ Refined(<<nnf[c[1]][1] + c[2][1], nnf[c[1]][2] + c[2][2]>>)
                   # Refined(<<Xof(t), Yof(t)>>)

\* ---- the patch distance as a function ----
\* coordinates in and around the image
Around == (-1..width) \X (-1..height)
\* the offsets d for which both a + d and b + d are inside the image
Qualifying(a, b) ==
  {d \in (-halfPatch..halfPatch) \X (-halfPatch..halfPatch) :
     /\ InBounds(<<a[1] + d[1], a[2] + d[2]>>)
     /\ InBounds(<<b[1] + d[1], b[2] + d[2]>>)}
SquaredRGB(a, b, d) ==
  LET p == data[(a[2] + d[2]) * width + a[1] + d[1]]
      q == data[(b[2] + d[2]) * width + b[1] + d[1]]
  IN  (p[1] - q[1]) * (p[1] - q[1]) + (p[2] - q[2]) * (p[2] - q[2])
      + (p[3] - q[3]) * (p[3] - q[3])
\* the buffer the distance is evaluated on first: seeded, not yet refined
DistanceStates == pc = "initdist"

\* C23: patchDist(a, b) is the sum of the squared RGB differences over
\* exactly the offsets d with a + d and b + d both in bounds, divided by
\* their number; it is Infinity exactly when there is no such offset, and
\* an Infinity is below no stored or running best distance.
C23_PatchDistIsMean ==
  DistanceStates =>
    \A a \in Around : \A b \in Around :
       LET pd == patchDist(data, a[1], a[2], b[1], b[2])
           q  == Qualifying(a, b)
       IN  /\ (q = {}) <=> (pd = Infinity)
           /\ q # {} =>
                /\ pd.d = Cardinality(q)
                /\ pd.n = SumOver(q, [d \in q |-> SquaredRGB(a, b, d)])
           /\ q = {} =>
                \A i \in Pixels : \A f \in BOOLEAN :
                   ~Less(pd, [n |-> nnfDist[i].n, d |-> nnfDist[i].d, f32 |-> f])

C23_Witness ==
  /\ DistanceStates
  /\ \E a \in Pixels : \E b \in Around :
        /\ ~InBounds(b)
        /\ Cardinality(Qualifying(<<Xof(a), Yof(a)>>, b)) >= 2
        /\ patchDist(data, Xof(a), Yof(a), b[1], b[2]).n > 0
  /\ \E a \in Pixels : \E b \in Around :
        /\ Qualifying(<<Xof(a), Yof(a)>>, b) = {}
        /\ patchDist(data, Xof(a), Yof(a), b[1], b[2]) = Infinity
  /\ \E i \in Pixels : nnfDist[i].d # 0

\* ---- initial distances ----
\* the first pass is about to visit its first pixel
FirstPassStart == pc = "visit" /\ iter = 0 /\ visited = <<>>

\* p/q is a Float32: nothing is left of it after its first 24 bits
F32Exact(p, q) ==
  IF p = 0 THEN TRUE
  ELSE LET P == NormUp(p, q)
           Q == NormDown(P, q)
       IN  F32Rest(P - Q, Q, 23) = 0
\* what patchDist(p, NNF(p)) returns on the buffer of the current state
SeededError(p) ==
  LET q == Qualifying(<<Xof(p), Yof(p)>>, nnf[p])
  IN  [n |-> SumOver(q, [d \in q |-> SquaredRGB(<<Xof(p), Yof(p)>>, nnf[p], d)]),
       d |-> Cardinality(q)]

\* C24: when the first pass starts, the buffer is seeded at every masked
\* pixel and the stored error of every masked pixel p equals
\* patchDist(p, NNF(p)) on that buffer: a finite number, and the number read
\* back from the Float32Array is the one patchDist returned.
C24_StoredEqualsPatchDist ==
  FirstPassStart =>
    \A p \in Pixels : WasMasked(p) =>
       /\ RGB(data[p]) = RGB(imgIn[nnf[p][2] * width + nnf[p][1]])
       /\ nnfDist[p] # Infinity
       /\ nnfDist[p] = SeededError(p)
       /\ F32Exact(nnfDist[p].n, nnfDist[p].d)

\* the same without the last conjunct: the error is the seeded buffer's, as
\* a fraction before it is rounded
SeededErrorsAsFractions ==
  FirstPassStart =>
    \A p \in Pixels : WasMasked(p) =>
       /\ RGB(data[p]) = RGB(imgIn[nnf[p][2] * width + nnf[p][1]])
       /\ nnfDist[p] # Infinity
       /\ nnfDist[p] = SeededError(p)

\* ---- pixels far from the hole ----
\* unmasked, and no masked pixel within Chebyshev distance halfPatch
Far(i) ==
  /\ ~WasMasked(i)
  /\ \A j \in Pixels :
        WasMasked(j) => Max(Abs(Xof(i) - Xof(j)), Abs(Yof(i) - Yof(j))) > halfPatch

\* C25: a successful run leaves the RGB of every pixel far from the hole as
\* the input had it, and sets its alpha to 255.
C25_FarPixelsKeepRGB ==
  (Done /\ HadSource) =>
     \A i \in Pixels : Far(i) => RGB(ctx[i]) = RGB(imgIn[i]) /\ ctx[i][4] = 255

C25_Witness ==
  /\ Done /\ HadSource
  /\ \E i \in Pixels : Far(i) /\ imgIn[i][4] # 255 /\ weights[i] >= 2
  /\ \E j \in Pixels : ~WasMasked(j) /\ ~Far(j) /\ RGB(ctx[j]) # RGB(imgIn[j])

\* ---- the working buffer during refinement ----
\* from the end of the seeding loop to the end of the last pass
Refining == pc \in {"initdist", "visit", "search", "reconstruct"}

\* C26: all through the refinement the working buffer holds, at every
\* unmasked pixel, the RGB of the input there, and at every masked pixel
\* the RGB the input has at the pixel's current NNF source.
C26_BufferFollowsNNF ==
  Refining =>
    \A i \in Pixels :
       RGB(data[i]) = IF WasMasked(i)
                      THEN RGB(imgIn[nnf[i][2] * width + nnf[i][1]])
                      ELSE RGB(imgIn[i])

\* after at least two visits, two masked pixels hold different colours, one
\* of them not the colour the input had there
C26_Witness ==
  /\ pc \in {"visit", "reconstruct"} /\ Len(visited) >= 2
  /\ \E i \in Pixels : \E j \in Pixels :
        /\ WasMasked(i) /\ WasMasked(j)
        /\ RGB(data[i]) # RGB(imgIn[i])
        /\ RGB(data[i]) # RGB(data[j])
        /\ <<iter, Xof(i), Yof(i)>> \in {visited[k] : k \in 1..Len(visited)}

\* ---- the range of the output ----
\* the values of channel k over the pixels unmasked in the input
SourceChannel(k) == {imgIn[i][k] : i \in {j \in Pixels : ~WasMasked(j)}}

\* C27: after a successful run every R, G and B of the output lies between
\* the least and the greatest value its channel has over the unmasked input
\* pixels; and a run on a picture that differs only under the stroke, given
\* the same random numbers, takes the same path to the same output.
C27_OutputWithinSourceRange ==
  /\ phase = "lockstep" => twin.pc = pc
  /\ (Done /\ HadSource) =>
       /\ \A i \in Pixels : \A k \in 1..3 :
             /\ \E u \in SourceChannel(k) : u <= ctx[i][k]
             /\ \E u \in SourceChannel(k) : ctx[i][k] <= u
       /\ phase = "lockstep" => twin.ctx = ctx /\ twin.nnf = nnf

C27_Witness ==
  /\ Done /\ HadSource /\ phase = "lockstep"
  /\ twin.pc = "done" /\ twin.maskCtx = maskIn
  /\ \E i \in Pixels : /\ WasMasked(i) /\ twin.ctx[i] # Foreign
                          /\ RGB(imgIn[i]) \notin SourceColours
                          /\ RGB(ctx[i]) \in SourceColours

\* ---- a second run ----
\* C28: a second call on the image and the cleared mask buffer a successful
\* first call produced goes through every stage without visiting a pixel and
\* ends with the image canvas byte for byte as the first call left it.
C28_SecondRunChangesNothing ==
  phase = "after" =>
     /\ visited = <<>>
     /\ pc \notin {"throw", "search"}
     /\ Done => ctx = twin.ctx /\ \A i \in Pixels : weights[i] >= 1

C28_Witness ==
  /\ phase = "after" /\ Done
  /\ twin.pc = "done" /\ twin.ctx # imgIn
  /\ \A i \in Pixels : twin.mask[i] = 0 /\ twin.ctx[i][4] = 255
  /\ \E i \in Pixels : weights[i] >= 2 /\ RGB(ctx[i]) \notin SourceColours

\* ---- loading the model ----
\* between this.isInitializing = true (line 41) and the finally block
InSection(c) == calls[c].at \in {"fetch1", "fetch2", "buffer", "create"}

\* C29: whatever the interleaving of init() and run() calls, at most one
\* call at a time is between setting isInitializing and the finally block,
\* and the flag is up exactly then; a call enters only while there is no
\* session; the session is assigned at most once and, once there, is never
\* replaced; and run() never finds it missing after init() returned.
C29_OneLoaderAtATime ==
  /\ [](/\ Cardinality({c \in Callers : InSection(c)}) <= 1
        /\ isInitializing <=> \E c \in Callers : InSection(c)
        /\ (\E c \in Callers : InSection(c)) => session = NoSession
        /\ created <= 1
        /\ \A c \in Callers :
              calls[c].at \in {"initDone", "inference"} => session # NoSession)
  /\ [][session # NoSession => session' = session]_vars

\* a load failed while two others polled; one of them took over and made
\* the session, the other returned without loading
C29_Witness ==
  /\ session # NoSession /\ created = 1
  /\ \E a \in Callers : \E b \in Callers : \E c \in Callers :
        /\ calls[a].at = "failed" /\ calls[a].op = "init"
        /\ b = session /\ a # b
        /\ c \notin {a, b} /\ calls[c].op = "run" /\ calls[c].at = "returned"

\* ---- the undo list ----
\* C30: after any sequence of saveHistory, undo and redo, saveHistory calls
\* of callbacks that captured an older historyStep included, historyStep is
\* at most history.length - 1, and it is -1 only when the list is empty.
C30_StepWithinHistory ==
  /\ historyStep <= Len(history) - 1
  /\ historyStep = -1 => history = <<>>
====
